---- MODULE Spec2Model ----
(***************************************************************************)
(* Model of the character-level text generator of                          *)
(* text_generation_lstm/text_generation_LSTM.py: the vocabulary maps       *)
(* (char_labels / labels_char), the Boltzmann sampler sample(probs,        *)
(* temperature) and the autoregressive loop generate(temperature, seed,    *)
(* num_chars).                                                             *)
(*                                                                         *)
(* Strings are sequences of one-character strings.  Floating-point values  *)
(* are abstracted to the IEEE classes that decide the control flow of the  *)
(* sampler (NaN, infinities, zero, finite positive / negative); where the  *)
(* magnitude that the abstraction drops decides an underflow or overflow,  *)
(* both results are kept.                                                  *)
(***************************************************************************)
EXTENDS Integers, Sequences, FiniteSets

VARIABLES
    text,         \* the corpus (module global, line 64)
    chars,        \* list(set(text)) (line 80): the distinct characters in some order
    call,         \* "none" | "generate" | "sample": the function that was called
    pc,           \* "ready" | "loop" | "sample" | "done" | "sampled" | "error"
    raised,       \* "none" or the exception that ended the call
    temperature,  \* argument of generate / sample (sign class: -1, 0, 1)
    seed_arg,     \* the seed the caller passed: [none |-> BOOLEAN, val |-> string]
    num_chars,    \* argument of generate
    start_idx,    \* the offset random.randint returned (line 407)
    seed,         \* the local `seed` after line 408
    sentence,     \* the sliding window
    generated,    \* the text produced so far
    x,            \* the last tensor handed to model.predict (batch index dropped)
    probs,        \* the last distribution given to sample
    dist,         \* sample's local `dist`
    next_idx,     \* the last label sample returned
    queries,      \* number of model.predict calls of this generate call
    draws,        \* number of np.random.choice calls
    iters,        \* number of loop iterations entered
    init_len      \* len(generated) at line 411

vars == <<text, chars, call, pc, raised, temperature, seed_arg, num_chars,
          start_idx, seed, sentence, generated, x, probs, dist, next_idx,
          queries, draws, iters, init_len>>

-----------------------------------------------------------------------------
(* Program constant and bounds of the model *)

max_len == 8

MaxTextExtra == 2     \* corpora have max_len+1 .. max_len+MaxTextExtra characters
MaxSeedShort == 1     \* shortest seed tried: max_len - MaxSeedShort
MaxSeedExtra == 1     \* longest seed tried: max_len + MaxSeedExtra
MaxGrow == 2          \* largest num_chars tried: max_len + MaxGrow

-----------------------------------------------------------------------------
(* Python helpers *)

Min(a, b) == IF a < b THEN a ELSE b
Max(a, b) == IF a < b THEN b ELSE a

\* s[a:b] for 0 <= a <= b on a string s (0-based, end clamped to len(s))
PySlice(s, a, b) == SubSeq(s, a + 1, Min(b, Len(s)))

\* pattern repeated and cut to n characters
Rep(p, n) == [i \in 1..n |-> p[((i - 1) % Len(p)) + 1]]

RECURSIVE Perms(_)
Perms(S) ==
    IF S = {} THEN {<<>>}
    ELSE UNION {{<<c>> \o p : p \in Perms(S \ {c})} : c \in S}

Range(s) == {s[i] : i \in 1..Len(s)}

-----------------------------------------------------------------------------
(* Inputs *)

\* corpora: a pattern repeated to a length above max_len
Patterns == {<<"a">>, <<"a", "b">>, <<"a", "b", "c">>}
TextLens == (max_len + 1)..(max_len + MaxTextExtra)
Corpora == {Rep(p, n) : p \in Patterns, n \in TextLens}

\* seeds a caller may pass; "b" is in the vocabulary of some corpora only
SeedPatterns == {<<"a", "b">>}
SeedLens == (max_len - MaxSeedShort)..(max_len + MaxSeedExtra)
Seeds == {Rep(p, n) : p \in SeedPatterns, n \in SeedLens}
NoSeed == [none |-> TRUE, val |-> <<>>]
SeedArgs == {NoSeed} \cup {[none |-> FALSE, val |-> s] : s \in Seeds}

NumChars == (max_len - 1)..(max_len + MaxGrow)

\* temperature by sign: negative, zero, positive
Temperatures == {-1, 0, 1}

-----------------------------------------------------------------------------
(* Vocabulary: char_labels = {ch:i for i, ch in enumerate(chars)},
   labels_char = {i:ch for i, ch in enumerate(chars)} *)

V == Len(chars)
Labels == 0..(V - 1)

\* later entries of a dict comprehension overwrite earlier ones
char_labels(ch) ==
    CHOOSE i \in Labels :
        /\ chars[i + 1] = ch
        /\ \A j \in Labels : chars[j + 1] = ch => j <= i

InVocabulary(ch) == \E i \in Labels : chars[i + 1] = ch

labels_char(i) == chars[i + 1]

-----------------------------------------------------------------------------
(* The input tensor: x = np.zeros((1, max_len, len(chars))), then
   x[0, t, char_labels[char]] = 1. for t, char in enumerate(sentence) *)

\* the assignment raises for a row outside the tensor or an unknown character
EncodeRaises(s) ==
    \/ Len(s) > max_len
    \/ \E t \in 1..Len(s) : ~InVocabulary(s[t])

\* variant: the 1 is written one column to the right
OneHotColShifted(ch) == (char_labels(ch) + 1) % V

OneHotCol(ch) == char_labels(ch)

Encode(s) ==
    [t \in 0..(max_len - 1) |->
        [j \in Labels |->
            IF t < Len(s) /\ OneHotCol(s[t + 1]) = j THEN 1 ELSE 0]]

-----------------------------------------------------------------------------
(* sample(probs, temperature), on IEEE classes.
   A component of probs is "neg" (< 0), "zero", "frac" (in (0,1)),
   "one" or "big" (> 1). *)

ProbClasses == {"neg", "zero", "frac", "one", "big"}

\* variant: the logarithm of a clipped value, np.log(np.maximum(probs, eps))
LogClassClipped(p) ==
    CASE p = "neg"  -> "negfin"
      [] p = "zero" -> "negfin"
      [] p = "frac" -> "negfin"
      [] p = "one"  -> "zero"
      [] p = "big"  -> "posfin"

\* np.log: log of a negative is nan, log(0) is -inf (a warning, no exception)
LogClass(p) ==
    CASE p = "neg"  -> "nan"
      [] p = "zero" -> "ninf"
      [] p = "frac" -> "negfin"
      [] p = "one"  -> "zero"
      [] p = "big"  -> "posfin"

\* array / temperature: a division by zero gives +-inf or nan (a warning)
DivClass(a, t) ==
    IF t > 0 THEN a
    ELSE IF t = 0 THEN
        CASE a = "nan"    -> "nan"
          [] a = "ninf"   -> "ninf"
          [] a = "negfin" -> "ninf"
          [] a = "zero"   -> "nan"
          [] a = "posfin" -> "pinf"
    ELSE
        CASE a = "nan"    -> "nan"
          [] a = "ninf"   -> "pinf"
          [] a = "negfin" -> "posfin"
          [] a = "zero"   -> "zero"
          [] a = "posfin" -> "negfin"

\* np.exp: a finite argument may underflow to 0 or overflow to inf
ExpClasses(a) ==
    CASE a = "nan"    -> {"nan"}
      [] a = "ninf"   -> {"zero"}
      [] a = "negfin" -> {"zero", "pos"}
      [] a = "zero"   -> {"pos"}
      [] a = "posfin" -> {"pos", "inf"}
      [] a = "pinf"   -> {"inf"}

\* a = np.log(probs)/temperature
Scaled(p, t) == [i \in DOMAIN p |-> DivClass(LogClass(p[i]), t)]

\* np.exp(a), every combination of the roundings
Weights(a) == {w \in [DOMAIN a -> {"nan", "zero", "pos", "inf"}] :
                  \A i \in DOMAIN a : w[i] \in ExpClasses(a[i])}

\* np.sum(np.exp(a)); a sum of several large finite terms may overflow
SumClasses(w, a) ==
    IF \E i \in DOMAIN w : w[i] = "nan" THEN {"nan"}
    ELSE IF \E i \in DOMAIN w : w[i] = "inf" THEN {"inf"}
    ELSE IF \A i \in DOMAIN w : w[i] = "zero" THEN {"zero"}
    ELSE IF Cardinality({i \in DOMAIN w : w[i] = "pos" /\ a[i] = "posfin"}) >= 2
         THEN {"pos", "inf"}
    ELSE {"pos"}

\* one component of np.exp(a)/np.sum(np.exp(a))
Quotient(wi, s) ==
    IF wi = "nan" \/ s = "nan" THEN "nan"
    ELSE IF s = "inf" THEN (IF wi = "inf" THEN "nan" ELSE "zero")
    ELSE IF s = "zero" THEN "nan"
    ELSE IF wi = "inf" THEN "nan"
    ELSE wi

\* the values `dist` can take
Dists(p, t) ==
    {[i \in DOMAIN p |-> Quotient(w[i], s)] :
        <<w, s>> \in UNION {{<<w, s>> : s \in SumClasses(w, Scaled(p, t))} :
                              w \in Weights(Scaled(p, t))}}

HasNaN(d) == \E i \in DOMAIN d : d[i] = "nan"
AllZero(d) == \A i \in DOMAIN d : d[i] = "zero"

\* np.random.choice(choices, p=dist) raises ValueError when p does not sum
\* to 1, and, in the numpy releases that test for it, when p contains NaN
ChoiceMayRaise(d) == HasNaN(d) \/ AllZero(d)

\* the labels np.random.choice can return: a label of positive probability;
\* for a NaN p, releases without the NaN test search a NaN cdf and return 0
ChoiceLabels(d) ==
    IF HasNaN(d) THEN {0}
    ELSE {i \in DOMAIN d : d[i] = "pos"}

-----------------------------------------------------------------------------
(* model.predict(x)[0]: the output of the softmax layer, one component per
   character.  It sums to 1: some component is nonzero, at most one is
   exactly 1, and a lone nonzero component is exactly 1. *)

OracleOutputs ==
    {p \in [Labels -> {"zero", "frac", "one"}] :
        LET nz == {i \in Labels : p[i] # "zero"}
            ones == {i \in Labels : p[i] = "one"}
        IN  /\ nz # {}
            /\ Cardinality(ones) <= 1
            /\ Cardinality(nz) = 1 => ones = nz}

-----------------------------------------------------------------------------
(* generate(temperature, seed, num_chars) *)

NoError == [kind |-> "none", arg |-> 0]

\* variant: len(x) <= num_chars
predict_moreInclusive(g) == Len(g) <= num_chars

\* predict_more = lambda x: len(x) < num_chars
predict_more(g) == Len(g) < num_chars

\* variant: the seed test is off by one
RejectsOffByOne(sa, t) == ~sa.none /\ Len(sa.val) < max_len - 1

\* variant: the seed test also rejects a temperature <= 0
RejectsTemperature(sa, t) == (~sa.none /\ Len(sa.val) < max_len) \/ t <= 0

\* if seed is not None and len(seed) < max_len: raise Exception(...)
\* (of generate's arguments the test reads the seed only)
Rejects(sa, t) == ~sa.none /\ Len(sa.val) < max_len

\* 'Seed text must be at least {} chars long'.format(max_len)
SeedError == [kind |-> "Exception", arg |-> max_len]

\* variant: random.randint(0, len(text) - 1)
StartIdxsToEnd == 0..(Len(text) - 1)

\* random.randint(0, len(text) - max_len - 1), both ends included
StartIdxs == 0..(Len(text) - max_len - 1)

\* variant: the random window is taken only when no seed was passed
ChosenSeedIfNone(sa, start) ==
    IF sa.none THEN PySlice(text, start, start + max_len) ELSE sa.val

\* the else branch runs for every seed that was not rejected:
\* seed = text[start_idx:start_idx + max_len]
ChosenSeed(sa, start) == PySlice(text, start, start + max_len)

\* variant: sentence = sentence + next_char
SlideNoDrop(s, ch) == s \o <<ch>>

\* sentence = sentence[1:] + next_char
Slide(s, ch) == (IF s = <<>> THEN <<>> ELSE Tail(s)) \o <<ch>>

Init ==
    /\ text \in Corpora
    /\ chars \in Perms(Range(text))
    /\ call = "none"
    /\ pc = "ready"
    /\ raised = NoError
    /\ temperature = 1
    /\ start_idx = 0
    /\ seed_arg = NoSeed
    /\ num_chars = 0
    /\ seed = <<>>
    /\ sentence = <<>>
    /\ generated = <<>>
    /\ x = <<>>
    /\ probs = <<>>
    /\ dist = <<>>
    /\ next_idx = 0
    /\ queries = 0
    /\ draws = 0
    /\ iters = 0
    /\ init_len = 0

\* lines 399-411: the seed test, the choice of the window, the initial text
CallGenerate ==
    /\ pc = "ready"
    /\ \E t \in Temperatures, sa \in SeedArgs, n \in NumChars :
        /\ temperature' = t
        /\ seed_arg' = sa
        /\ num_chars' = n
        /\ IF Rejects(sa, t)
           THEN /\ pc' = "error"
                /\ raised' = SeedError
                /\ UNCHANGED <<start_idx, seed, sentence, generated, init_len>>
           ELSE IF StartIdxs = {}
           THEN /\ pc' = "error"
                /\ raised' = [kind |-> "ValueError", arg |-> 0]
                /\ UNCHANGED <<start_idx, seed, sentence, generated, init_len>>
           ELSE \E start \in StartIdxs :
                /\ start_idx' = start
                /\ seed' = ChosenSeed(sa, start)
                /\ sentence' = seed'
                /\ generated' = sentence'
                /\ init_len' = Len(generated')
                /\ pc' = "loop"
                /\ raised' = NoError
    /\ call' = "generate"
    /\ UNCHANGED <<text, chars, x, probs, dist, next_idx, queries, draws, iters>>

\* lines 413-421: the loop test, the input tensor and the oracle query
Predict ==
    /\ pc = "loop"
    /\ predict_more(generated)
    /\ iters' = iters + 1
    /\ IF EncodeRaises(sentence)
       THEN /\ pc' = "error"
            /\ raised' = [kind |-> IF Len(sentence) > max_len THEN "IndexError"
                                   ELSE "KeyError", arg |-> 0]
            /\ UNCHANGED <<x, probs, queries>>
       ELSE /\ x' = Encode(sentence)
            /\ queries' = queries + 1
            /\ probs' \in OracleOutputs
            /\ pc' = "sample"
            /\ raised' = NoError
    /\ UNCHANGED <<text, chars, call, temperature, seed_arg, num_chars,
                   start_idx, seed, sentence, generated, dist, next_idx,
                   draws, init_len>>

\* lines 424-428: the draw, the append and the slide of the window
Draw ==
    /\ pc = "sample"
    /\ draws' = draws + 1
    /\ \E d \in Dists(probs, temperature) :
        /\ dist' = d
        /\ \/ /\ ChoiceMayRaise(d)
              /\ pc' = "error"
              /\ raised' = [kind |-> "ValueError", arg |-> 0]
              /\ UNCHANGED <<sentence, generated, next_idx>>
           \/ \E idx \in ChoiceLabels(d) :
              /\ next_idx' = idx
              /\ generated' = Append(generated, labels_char(idx))
              /\ sentence' = Slide(sentence, labels_char(idx))
              /\ pc' = "loop"
              /\ raised' = NoError
    /\ UNCHANGED <<text, chars, call, temperature, seed_arg, num_chars,
                   start_idx, seed, x, probs, queries, iters, init_len>>

\* line 429: return generated
Return ==
    /\ pc = "loop"
    /\ ~predict_more(generated)
    /\ pc' = "done"
    /\ UNCHANGED <<text, chars, call, raised, temperature, seed_arg, num_chars,
                   start_idx, seed, sentence, generated, x, probs, dist,
                   next_idx, queries, draws, iters, init_len>>

\* lines 332-338: a direct call sample(probs, temperature)
CallSample ==
    /\ pc = "ready"
    /\ \E p \in [Labels -> ProbClasses], t \in Temperatures :
        /\ probs' = p
        /\ temperature' = t
        /\ \E d \in Dists(p, t) :
            /\ dist' = d
            /\ \/ /\ ChoiceMayRaise(d)
                  /\ pc' = "error"
                  /\ raised' = [kind |-> "ValueError", arg |-> 0]
                  /\ UNCHANGED next_idx
               \/ \E idx \in ChoiceLabels(d) :
                  /\ next_idx' = idx
                  /\ pc' = "sampled"
                  /\ raised' = NoError
    /\ call' = "sample"
    /\ draws' = draws + 1
    /\ UNCHANGED <<text, chars, seed_arg, num_chars, start_idx, seed, sentence,
                   generated, x, queries, iters, init_len>>

Next == CallGenerate \/ Predict \/ Draw \/ Return \/ CallSample

Spec == Init /\ [][Next]_vars

-----------------------------------------------------------------------------
(* Properties *)

InGenerate == call = "generate" /\ pc \in {"loop", "sample", "done"}

SeedGiven == call = "generate" /\ ~seed_arg.none

\* the last n characters of s
LastChars(s, n) == SubSeq(s, Len(s) - n + 1, Len(s))

\* the length of the text generation starts from: the seed when one is
\* passed, the random window otherwise
InitialLength == IF seed_arg.none THEN init_len ELSE Len(seed_arg.val)

\* the call is one the interface allows: a positive temperature and, when a
\* seed is passed, one of at least max_len characters of the vocabulary
ValidCall ==
    /\ call = "generate"
    /\ temperature > 0
    /\ seed_arg.none \/ /\ Len(seed_arg.val) >= max_len
                         /\ Range(seed_arg.val) \subseteq Range(chars)

\* C1: a supplied seed of at least max_len characters is a prefix of the
\* returned text, for every num_chars from len(seed) on.
C1_SeedIsPrefix ==
    (pc = "done" /\ ValidCall /\ SeedGiven /\ num_chars >= Len(seed_arg.val)) =>
        /\ Len(generated) >= Len(seed_arg.val)
        /\ SubSeq(generated, 1, Len(seed_arg.val)) = seed_arg.val

\* C2: on normal return the text has exactly num_chars characters whenever
\* num_chars is at least the length of the initial text.
C2_LengthIsNumChars ==
    (call = "generate" /\ pc = "done" /\ num_chars >= init_len) =>
        Len(generated) = num_chars

C2_Witness ==
    /\ call = "generate" /\ pc = "done"
    /\ num_chars >= init_len + 2
    /\ queries >= 2
    /\ Len(generated) = num_chars

\* C3: a supplied seed shorter than max_len ends the call with the exception
\* that names max_len, before any oracle query and with no text produced.
C3_ShortSeedRejected ==
    (SeedGiven /\ Len(seed_arg.val) < max_len) =>
        /\ pc = "error"
        /\ raised.kind = "Exception"
        /\ raised.arg = max_len
        /\ queries = 0 /\ draws = 0 /\ iters = 0
        /\ generated = <<>> /\ sentence = <<>>

C3_Witness ==
    /\ SeedGiven
    /\ Len(seed_arg.val) = max_len - 1
    /\ pc = "error"
    /\ raised.kind = "Exception"

\* C4 as stated: with temperature <= 0 generate is rejected before any
\* computation: no oracle query, no draw, no character appended.
C4_RejectedBeforeComputation ==
    (call = "generate" /\ temperature <= 0) =>
        /\ queries = 0
        /\ draws = 0
        /\ Len(generated) <= init_len

\* C4 amended: generate makes no test of temperature.  With temperature <= 0
\* the only failure before an oracle query is the short-seed one; any other
\* failure is the ValueError of the draw, raised after the oracle query of
\* that step with no character appended for it; temperature = 0 makes every
\* component of dist NaN.
C4_NoTemperatureTest ==
    (call = "generate" /\ temperature <= 0) =>
        /\ (pc = "error" /\ queries = 0) =>
               (~seed_arg.none /\ Len(seed_arg.val) < max_len)
        /\ (pc = "error" /\ queries > 0) =>
               /\ raised.kind = "ValueError"
               /\ draws = queries
               /\ Len(generated) = init_len + draws - 1
        /\ (temperature = 0 /\ draws > 0) =>
               \A i \in DOMAIN dist : dist[i] = "nan"

C4_Witness ==
    /\ call = "generate"
    /\ temperature = 0
    /\ pc = "error"
    /\ raised.kind = "ValueError"
    /\ queries = 1

\* a draw has been made on the current probs
Drawn == draws > 0 /\ pc # "sample"

NonPositive(p) == \E i \in DOMAIN p : p[i] \in {"neg", "zero"}

\* C5 as stated: a distribution with a component <= 0 makes sample fail and
\* return no label; in generate no character is appended for that step.
\* (Stated for a positive temperature and a dist without NaN, where the
\* result does not depend on the numpy release.)
C5_NonPositiveFails ==
    (Drawn /\ temperature > 0 /\ ~HasNaN(dist) /\ NonPositive(probs)) =>
        pc = "error"

\* C5 amended: a zero component is no error: its weight is exp(-inf) = 0 and,
\* when dist has no NaN, the label drawn has a positive component and (in
\* generate) its character is appended.  sample fails only in the draw, with
\* ValueError, when dist contains NaN or is all zero; a negative component
\* always makes dist NaN.
C5_ZeroIsNoError ==
    Drawn =>
        /\ pc = "error" => (raised.kind = "ValueError" /\ ChoiceMayRaise(dist))
        /\ (pc # "error" /\ ~HasNaN(dist)) =>
               /\ dist[next_idx] = "pos"
               /\ probs[next_idx] \notin {"neg", "zero"}
        /\ (pc # "error" /\ call = "generate") =>
               /\ Len(generated) = init_len + draws
               /\ generated[Len(generated)] = labels_char(next_idx)
        /\ (\E i \in DOMAIN probs : probs[i] = "neg") => HasNaN(dist)

\* sample([0.5, 0.0, 0.3], 1.0) inside generate: a character is appended
C5_Witness ==
    /\ call = "generate" /\ pc = "loop" /\ draws = 1
    /\ temperature = 1
    /\ V = 3
    /\ probs[0] = "frac" /\ probs[1] = "zero" /\ probs[2] = "frac"
    /\ ~HasNaN(dist)
    /\ next_idx = 2
    /\ Len(generated) = init_len + 1

\* C6: every character of the generated text is in the vocabulary; a label
\* returned by sample is in [0, V) and the character appended is its image
\* under labels_char.
C6_ClosedVocabulary ==
    /\ \A i \in 1..Len(generated) : generated[i] \in Range(chars)
    /\ (Drawn /\ pc # "error") => next_idx \in 0..(Len(chars) - 1)
    /\ (InGenerate /\ Drawn) =>
           generated[Len(generated)] = chars[next_idx + 1]

C6_Witness ==
    /\ call = "generate" /\ pc = "done"
    /\ SeedGiven
    /\ Len(generated) = init_len + 2

\* C7: generate returns after exactly max(0, num_chars - initial length)
\* iterations, each with one oracle query and one character appended.
C7_IterationCount ==
    (pc = "done" /\ ValidCall) =>
        /\ iters = Max(0, num_chars - InitialLength)
        /\ queries = iters
        /\ Len(generated) = init_len + iters

\* np.argmax of one row: the first column holding the maximum
ArgMax(row) ==
    CHOOSE j \in DOMAIN row :
        /\ \A k \in DOMAIN row : row[k] <= row[j]
        /\ \A k \in DOMAIN row : row[k] = row[j] => j <= k

Decode(m) == [t \in 1..max_len |-> chars[ArgMax(m[t - 1]) + 1]]

RECURSIVE RowSum(_, _)
RowSum(row, S) ==
    IF S = {} THEN 0
    ELSE LET j == CHOOSE k \in S : TRUE IN row[j] + RowSum(row, S \ {j})

\* C8: the tensor handed to the oracle is the one-hot encoding of the
\* window: max_len rows, V columns, row t has its single 1 in the column of
\* the t-th character, and decoding it gives the window back.
C8_OneHotOfWindow ==
    (call = "generate" /\ pc = "sample") =>
        /\ DOMAIN x = 0..(max_len - 1)
        /\ \A t \in DOMAIN x :
            /\ DOMAIN x[t] = 0..(Len(chars) - 1)
            /\ RowSum(x[t], DOMAIN x[t]) = 1
            /\ \A j \in DOMAIN x[t] :
                   x[t][j] = (IF chars[j + 1] = sentence[t + 1] THEN 1 ELSE 0)
        /\ Decode(x) = sentence

C8_Witness ==
    /\ call = "generate" /\ pc = "sample"
    /\ queries = 2
    /\ Len(chars) = 3
    /\ Cardinality(Range(sentence)) = 3

\* C9: between iterations and on return the window has exactly max_len
\* characters and is the tail of the generated text; after a draw its last
\* character is the sampled one and the rest is the old window less its
\* first character.
C9_SlidingWindow ==
    InGenerate =>
        /\ Len(sentence) = max_len
        /\ sentence = LastChars(generated, max_len)
        /\ SubSeq(generated, 1, init_len) = seed
        /\ (pc = "loop" /\ draws > 0) =>
               /\ sentence[max_len] = labels_char(next_idx)
               /\ SubSeq(sentence, 1, max_len - 1) =
                      SubSeq(generated, Len(generated) - max_len + 1,
                             Len(generated) - 1)

C9_Witness ==
    /\ call = "generate" /\ pc = "loop"
    /\ draws = 2
    /\ sentence # seed
    /\ sentence = LastChars(generated, max_len)

\* C10: with no seed supplied the window is text[start_idx : start_idx +
\* max_len] for an offset in 0 .. len(text) - max_len - 1: exactly max_len
\* characters, all inside the corpus.
C10_WindowInsideCorpus ==
    (InGenerate /\ seed_arg.none) =>
        /\ start_idx \in 0..(Len(text) - max_len - 1)
        /\ start_idx + max_len <= Len(text)
        /\ Len(seed) = max_len
        /\ \A k \in 1..max_len : seed[k] = text[start_idx + k]

C10_Witness ==
    /\ InGenerate /\ seed_arg.none
    /\ start_idx = Len(text) - max_len - 1
    /\ start_idx > 0
    /\ Len(seed) = max_len

====
